---- MODULE Spec2Model ----
(***************************************************************************)
(* State-machine model of the AI presentation generator:                    *)
(*   - PresentationViewer (timer-driven slide playback, src/unnamed/part_001)*)
(*   - App.handleGenerate / App.handleDownload (src/App.tsx)                 *)
(*                                                                           *)
(* The host is a single-threaded event loop.  A handler runs to completion;  *)
(* timers, media events, animation frames and promise continuations are      *)
(* separate tasks.  React state set from a timer callback or from a native   *)
(* media-event listener is queued and committed by a later render task, and  *)
(* the passive effects of that commit run after it; state set from a click   *)
(* handler is rendered, and its effects flushed, before the click returns.   *)
(*                                                                           *)
(* Times are in thirds of a millisecond, so that wordCount / 180 * 60000 ms  *)
(* is an exact integer.                                                      *)
(***************************************************************************)
EXTENDS Integers, Sequences, FiniteSets, TLC

\* ------------------------------------------------------------------ bounds
MaxSlides == 3        \* slides of the presentation shown by the viewer
MaxClicks == 3        \* play/pause clicks considered
MaxText == 5          \* characters of the narration texts given to the estimators
MaxFrames == 2        \* frames of the audio buffers given to bufferToWav
MaxChannels == 2      \* channels of those buffers
SampleDen == 8        \* samples are the fractions n / SampleDen
MaxDim == 4           \* small canvas and image sides given to renderLoop's geometry

\* -------------------------------------------------------- program constants
averageWPM == 180
ScenarioSlides == 5   \* "Generate exactly 5 slides"
ScenarioWords == 30   \* "around 30-50 words" of narration per slide
CanvasWidth == 1280   \* canvas.width
CanvasHeight == 720   \* canvas.height
SampleRate == 24000   \* the sample rate of the decoded narration
WavHeaderLen == 44    \* bytes of the WAVE header
TagRIFF == 1179011410 \* 0x46464952 "RIFF"
TagWAVE == 1163280727 \* 0x45564157 "WAVE"
TagFmt == 544501094   \* 0x20746d66 "fmt "
TagData == 1635017060 \* 0x61746164 "data"

\* ------------------------------------------------------------ pure helpers
IsSpace(c) == c = " "

\* narration.split(/\s+/).length : one more than the number of maximal
\* whitespace runs (leading and trailing runs produce empty tokens).
SplitCount(s) ==
    1 + Cardinality({i \in 1..Len(s) : IsSpace(s[i]) /\ (i = 1 \/ ~IsSpace(s[i-1]))})

\* (wordCount / averageWPM) * 60 * 1000 ms, in thirds of a millisecond.
EstimateDuration(narration) ==
    (SplitCount(narration) * 60 * 1000 * 3) \div averageWPM

\* The narration texts of the slides (slide i is 0-based): one- and
\* three-word texts alternate.
Narration(i) ==
    IF i % 2 = 0 THEN <<"w", " ", "w", " ", "w">> ELSE <<"w">>

Min(S) == CHOOSE x \in S : \A y \in S : x <= y

\* The estimated durations of the first n slides, and their total.
Durations(n) == [i \in 0..(n - 1) |-> EstimateDuration(Narration(i))]

RECURSIVE ScheduleTotal(_)
ScheduleTotal(n) == IF n = 0 THEN 0 ELSE ScheduleTotal(n - 1) + Durations(n)[n - 1]

\* Lengths of the narration audio considered: it ends during the schedule
\* (at the end of slide 0), exactly with it, or after it.
AudioLens == {Durations(1)[0], ScheduleTotal(MaxSlides), ScheduleTotal(MaxSlides) + 1000}

VARIABLES
    \* ---- PresentationViewer
    currentSlideIndex,   \* useState(0)
    isPlaying,           \* useState(false)
    slideTimeoutRef,     \* useRef: 0 is null, else a timer id
    viewerTimers,        \* pending setTimeout callbacks: [id, idx, remaining]
    timerSeq,            \* timer ids handed out so far
    updateQueue,         \* state updates queued for the next render
    effectsPending,      \* a commit changed the deps of the playback effect
    audioPaused,         \* HTMLAudioElement.paused
    audioTime,           \* HTMLAudioElement.currentTime
    audioLen,            \* duration of the narration audio
    endedEventQueued,    \* an 'ended' event task is queued
    clicks,              \* play/pause clicks so far
    firedAfterStop,      \* timeout callbacks that ran after a stop or an index move
    \* ---- App
    topic,               \* useState(''): "" or a non-blank topic
    isLoading,           \* useState(false)
    error,               \* useState(null): "null" or a message
    generatedSlides,     \* useState([]): the number of slides, 0 for []
    audioUrl,            \* useState(''): 0 for '', else the object URL of a WAV of that length
    isDownloading,       \* useState(false)
    genPc,               \* where handleGenerate is suspended
    scriptSlides,        \* handleGenerate's scriptSlides (their number)
    genOutcome,          \* how the last handleGenerate ended: "none", "ok", "error"
    \* ---- one run of handleDownload
    dlPc,                \* where handleDownload is
    dlOutcome,           \* how the last run ended: "none", "ok", "error"
    dlSlides,            \* generatedSlides as captured by the handler's closure
    dlAudioUrl,          \* audioUrl as captured by the handler's closure
    videoTrackLive,      \* canvas.captureStream(30) was acquired and not stopped
    audioContextState,   \* "none", "running", "closed"
    recorderState,       \* "none" (not constructed), "inactive", "recording"
    srcPlaying,          \* the AudioBufferSourceNode is playing
    srcTime,             \* how much of the buffer it has played
    srcLen,              \* audioBuffer.duration
    srcEndedQueued,      \* its 'ended' event task is queued
    srcEnded,            \* its 'ended' event has been dispatched
    onendedSet,          \* audioSource.onended is registered
    imgRemaining,        \* time until the image loads settle
    exportSlideIndex,    \* handleDownload's currentSlideIndex
    slideIndex,          \* startSlideShow's slideIndex
    slideTimeoutId,      \* 0 for undefined, else a timer id
    exportTimers,        \* pending setTimeout callbacks: [id, remaining]
    exportTimerSeq,      \* timer ids handed out in this run
    rafQueued,           \* a renderLoop invocation is queued for the next frame
    canvasShows,         \* index of the image last drawn, -1 for a blank canvas
    chunks,              \* the recorder's chunks array
    stopEventQueued,     \* the recorder's dataavailable/stop tasks are queued
    stopCalls,           \* recorder.stop() calls of this run
    blob,                \* the chunks of the blob built by onstop
    offered,             \* downloads offered by this run
    \* ---- pure functions of App.tsx and PresentationViewer
    call,                \* the function being applied and its arguments
    result               \* its locals and, once it returned, its value

viewerVars == <<currentSlideIndex, isPlaying, slideTimeoutRef, viewerTimers,
                timerSeq, updateQueue, effectsPending, audioPaused, audioTime,
                audioLen, endedEventQueued, clicks, firedAfterStop>>

appVars == <<topic, isLoading, error, generatedSlides, audioUrl, isDownloading,
             genPc, scriptSlides, genOutcome>>

exportVars == <<dlPc, dlOutcome, dlSlides, dlAudioUrl, videoTrackLive,
                audioContextState, recorderState, srcPlaying, srcTime, srcLen,
                srcEndedQueued, srcEnded, onendedSet, imgRemaining,
                exportSlideIndex, slideIndex, slideTimeoutId, exportTimers,
                exportTimerSeq, rafQueued, canvasShows, chunks, stopEventQueued,
                stopCalls, blob, offered>>

pureVars == <<call, result>>

vars == <<viewerVars, appVars, exportVars, pureVars>>

\* ------------------------------------------------------ PresentationViewer
slidesLength == MaxSlides

\* slides.map(slide => wordCount / averageWPM * 60 * 1000)
slideDurations == Durations(slidesLength)

\* clearTimeout(id): a no-op for null and for ids that already fired
ClearTimeout(timers, id) == {t \in timers : t.id # id}

\* a guard that never clears the stored handle
ClearRefNoop(timers, ref) == timers

\* if (slideTimeoutRef.current) clearTimeout(slideTimeoutRef.current)
ClearRef(timers, ref) == IF ref # 0 THEN ClearTimeout(timers, ref) ELSE timers

\* The committed state after applying the queued updates in order.
RECURSIVE ApplyUpdates(_, _)
ApplyUpdates(st, q) ==
    IF q = <<>> THEN st
    ELSE LET u == Head(q)
             st2 == CASE u.kind = "setIndex"   -> [st EXCEPT !.idx = u.val]
                      [] u.kind = "incIndex"   -> [st EXCEPT !.idx = st.idx + 1]
                      [] u.kind = "setPlaying" -> [st EXCEPT !.playing = u.val]
         IN ApplyUpdates(st2, Tail(q))

StopRequested == \E k \in 1..Len(updateQueue) :
                    /\ updateQueue[k].kind = "setPlaying"
                    /\ updateQueue[k].val = FALSE

\* scheduleNextSlide without the else branch: playback is never marked stopped
ScheduleNextSlideNoStop(timers, ref, seq, idx) ==
    LET cleared == ClearRef(timers, ref)
    IN IF idx < slidesLength - 1
       THEN [timers |-> cleared \cup {[id |-> seq + 1, idx |-> idx,
                                       remaining |-> Durations(slidesLength)[idx]]},
             ref |-> seq + 1, seq |-> seq + 1, queue |-> <<>>]
       ELSE [timers |-> cleared, ref |-> ref, seq |-> seq, queue |-> <<>>]

\* scheduleNextSlide, run by the playback effect with the committed index idx.
\* Returns the timers, the ref, the ids handed out and the updates it queues.
ScheduleNextSlide(timers, ref, seq, idx) ==
    LET cleared == ClearRef(timers, ref)
    IN IF idx < slidesLength - 1
       THEN [timers |-> cleared \cup {[id |-> seq + 1, idx |-> idx,
                                       remaining |-> slideDurations[idx]]},
             ref |-> seq + 1, seq |-> seq + 1, queue |-> <<>>]
       ELSE [timers |-> cleared, ref |-> ref, seq |-> seq,
             queue |-> <<[kind |-> "setPlaying", val |-> FALSE]>>]

\* The playback effect: cleanup of the previous run, then the new run.
PlaybackEffect(timers, ref, seq, playing, idx) ==
    LET afterCleanup == ClearRef(timers, ref)
    IN IF playing
       THEN ScheduleNextSlide(afterCleanup, ref, seq, idx)
       ELSE [timers |-> ClearRef(afterCleanup, ref), ref |-> ref, seq |-> seq,
             queue |-> <<>>]

\* a resume that never goes back to the first slide
ResumeNeverResets(ended, idx) == FALSE

\* if (audio.ended || currentSlideIndex === slides.length - 1)
ResumeResets(ended, idx) == ended \/ idx = slidesLength - 1

\* handlePlayPause, followed by the synchronous render of a click and the
\* flush of its effects.  Clicks are taken when React has nothing queued, so
\* that the handler's closure holds the state all updates have reached.
HandlePlayPause ==
    /\ clicks < MaxClicks
    /\ updateQueue = <<>> /\ ~effectsPending
    /\ clicks' = clicks + 1
    /\ LET ended == audioTime = audioLen
           reset == ~isPlaying /\ ResumeResets(ended, currentSlideIndex)
           newIdx == IF reset THEN 0 ELSE currentSlideIndex
           eff == PlaybackEffect(viewerTimers, slideTimeoutRef, timerSeq,
                                 ~isPlaying, newIdx)
       IN /\ IF isPlaying
             THEN /\ audioPaused' = TRUE
                  /\ audioTime' = audioTime
             ELSE /\ audioPaused' = FALSE
                  /\ audioTime' = IF reset \/ ended THEN 0 ELSE audioTime
          /\ isPlaying' = ~isPlaying
          /\ currentSlideIndex' = newIdx
          /\ viewerTimers' = eff.timers
          /\ slideTimeoutRef' = eff.ref
          /\ timerSeq' = eff.seq
          /\ updateQueue' = eff.queue
    /\ UNCHANGED <<effectsPending, audioLen, endedEventQueued, firedAfterStop,
                   appVars, exportVars, pureVars>>

\* The callback of a due timeout: setCurrentSlideIndex(prev => prev + 1).
TimeoutFires(t) ==
    /\ t \in viewerTimers /\ t.remaining = 0
    /\ viewerTimers' = viewerTimers \ {t}
    /\ updateQueue' = Append(updateQueue, [kind |-> "incIndex", val |-> 0])
    /\ firedAfterStop' =
          IF ~isPlaying \/ StopRequested \/ currentSlideIndex # t.idx
          THEN firedAfterStop + 1 ELSE firedAfterStop
    /\ UNCHANGED <<currentSlideIndex, isPlaying, slideTimeoutRef, timerSeq,
                   effectsPending, audioPaused, audioTime, audioLen,
                   endedEventQueued, clicks, appVars, exportVars, pureVars>>

\* The 'ended' listener: setIsPlaying(false); setCurrentSlideIndex(length - 1).
OnEnded ==
    /\ endedEventQueued
    /\ endedEventQueued' = FALSE
    /\ updateQueue' = updateQueue \o
           <<[kind |-> "setPlaying", val |-> FALSE],
             [kind |-> "setIndex", val |-> slidesLength - 1]>>
    /\ UNCHANGED <<currentSlideIndex, isPlaying, slideTimeoutRef, viewerTimers,
                   timerSeq, effectsPending, audioPaused, audioTime, audioLen,
                   clicks, firedAfterStop, appVars, exportVars, pureVars>>

\* The render task: commits the queued updates.
Render ==
    /\ updateQueue # <<>> /\ ~effectsPending
    /\ LET st == ApplyUpdates([idx |-> currentSlideIndex, playing |-> isPlaying],
                              updateQueue)
       IN /\ currentSlideIndex' = st.idx
          /\ isPlaying' = st.playing
          /\ effectsPending' = (st.idx # currentSlideIndex \/ st.playing # isPlaying)
    /\ updateQueue' = <<>>
    /\ UNCHANGED <<slideTimeoutRef, viewerTimers, timerSeq, audioPaused,
                   audioTime, audioLen, endedEventQueued, clicks, firedAfterStop,
                   appVars, exportVars, pureVars>>

\* The passive-effect task of the last commit.
FlushEffects ==
    /\ effectsPending
    /\ effectsPending' = FALSE
    /\ LET eff == PlaybackEffect(viewerTimers, slideTimeoutRef, timerSeq,
                                 isPlaying, currentSlideIndex)
       IN /\ viewerTimers' = eff.timers
          /\ slideTimeoutRef' = eff.ref
          /\ timerSeq' = eff.seq
          /\ updateQueue' = updateQueue \o eff.queue
    /\ UNCHANGED <<currentSlideIndex, isPlaying, audioPaused, audioTime,
                   audioLen, endedEventQueued, clicks, firedAfterStop,
                   appVars, exportVars, pureVars>>

ViewerAudioRuns == ~audioPaused /\ audioTime < audioLen

\* The time the user may let pass before a click: half of the shortest slide.
ClickGap == Durations(2)[1] \div 2

\* Time passes up to the next due timeout or the end of the audio, or, when
\* the user is going to click before that, by ClickGap; it passes only when
\* no task is ready to run.
ViewerTick ==
    /\ updateQueue = <<>> /\ ~effectsPending /\ ~endedEventQueued
    /\ \A t \in viewerTimers : t.remaining > 0
    /\ LET waits == {t.remaining : t \in viewerTimers}
                    \cup (IF ViewerAudioRuns THEN {audioLen - audioTime} ELSE {})
       IN /\ waits # {}
          /\ \E d \in {Min(waits)} \cup
                       {g \in {ClickGap} : g < Min(waits) /\ clicks < MaxClicks} :
                /\ viewerTimers' = {[t EXCEPT !.remaining = t.remaining - d] :
                                       t \in viewerTimers}
                /\ IF ViewerAudioRuns
                   THEN /\ audioTime' = audioTime + d
                        /\ audioPaused' = (audioTime + d = audioLen)
                        /\ endedEventQueued' = (audioTime + d = audioLen)
                   ELSE UNCHANGED <<audioTime, audioPaused, endedEventQueued>>
    /\ UNCHANGED <<currentSlideIndex, isPlaying, slideTimeoutRef, timerSeq,
                   updateQueue, effectsPending, audioLen, clicks, firedAfterStop,
                   appVars, exportVars, pureVars>>

ViewerInit ==
    /\ currentSlideIndex = 0
    /\ isPlaying = FALSE
    /\ slideTimeoutRef = 0
    /\ viewerTimers = {}
    /\ timerSeq = 0
    /\ updateQueue = <<>>
    /\ effectsPending = FALSE
    /\ audioPaused = TRUE
    /\ audioTime = 0
    /\ audioLen \in AudioLens
    /\ endedEventQueued = FALSE
    /\ clicks = 0
    /\ firedAfterStop = 0

ViewerNext ==
    \/ HandlePlayPause
    \/ \E t \in viewerTimers : TimeoutFires(t)
    \/ OnEnded
    \/ Render
    \/ FlushEffects
    \/ ViewerTick


\* --------------------------------------------------------------------- App
\* Delays of the image loads of an export considered: brief, and longer than
\* the shortest narration audio.
ImageLoadDelays == {500, Durations(1)[0] + 1000}

\* Between two statements of one synchronous stretch of handleDownload no
\* other task runs.
MidTask == dlPc \in {"recorderStart", "audioStart", "recorderStop"}

\* {generatedSlides.length === 0 ? <form> : <viewer>}
FormShown == generatedSlides = 0
ViewerShown == generatedSlides # 0

\* {error && <p>{error}</p>}, which only the form branch holds
ErrorShown == FormShown /\ error # "null" /\ error # ""

\* onChange of the topic input (disabled while loading)
SetTopic(t) ==
    /\ ~MidTask /\ FormShown /\ ~isLoading
    /\ topic # t
    /\ topic' = t
    /\ UNCHANGED <<isLoading, error, generatedSlides, audioUrl, isDownloading,
                   genPc, scriptSlides, genOutcome, viewerVars, pureVars, exportVars>>

\* handleGenerate up to the first await
ClickGenerate ==
    /\ ~MidTask /\ FormShown /\ ~isLoading
    /\ IF topic = ""
       THEN /\ error' = "Please enter a topic."
            /\ UNCHANGED <<isLoading, generatedSlides, audioUrl, genPc, genOutcome>>
       ELSE /\ isLoading' = TRUE
            /\ genOutcome' = "none"
            /\ error' = "null"
            /\ generatedSlides' = 0
            /\ audioUrl' = 0
            /\ genPc' = "script"
    /\ UNCHANGED <<topic, isDownloading, scriptSlides, viewerVars, pureVars, exportVars>>

\* catch (err) { setError(...) } finally { setIsLoading(false) }
GenerateFails ==
    /\ error' = "err.message"
    /\ isLoading' = FALSE
    /\ genPc' = "idle"
    /\ genOutcome' = "error"

\* await generatePresentationScript(topic)
ScriptSettles(ok, n) ==
    /\ ~MidTask /\ genPc = "script"
    /\ IF ok
       THEN /\ scriptSlides' = n
            /\ genPc' = "images"
            /\ UNCHANGED <<isLoading, error, genOutcome>>
       ELSE /\ GenerateFails
            /\ UNCHANGED scriptSlides
    /\ UNCHANGED <<topic, generatedSlides, audioUrl, isDownloading, viewerVars, pureVars,
                   exportVars>>

\* await Promise.all(imagePromises); setGeneratedSlides(slidesWithImages)
ImagesSettle(ok) ==
    /\ ~MidTask /\ genPc = "images"
    /\ ok \/ scriptSlides > 0
    /\ IF ok
       THEN /\ generatedSlides' = scriptSlides
            /\ genPc' = "narration"
            /\ UNCHANGED <<isLoading, error, genOutcome>>
       ELSE /\ GenerateFails
            /\ UNCHANGED generatedSlides
    /\ UNCHANGED <<topic, audioUrl, isDownloading, scriptSlides, viewerVars, pureVars,
                   exportVars>>

\* await generateNarrationAudio(fullNarrationScript)
NarrationSettles(ok) ==
    /\ ~MidTask /\ genPc = "narration"
    /\ IF ok
       THEN /\ genPc' = "decode"
            /\ UNCHANGED <<isLoading, error, genOutcome>>
       ELSE GenerateFails
    /\ UNCHANGED <<topic, generatedSlides, audioUrl, isDownloading, scriptSlides,
                   viewerVars, pureVars, exportVars>>

\* await decodeAudioData(...); bufferToWav; setAudioUrl(url); finally
DecodeSettles(ok, len) ==
    /\ ~MidTask /\ genPc = "decode"
    /\ IF ok
       THEN /\ audioUrl' = len
            /\ isLoading' = FALSE
            /\ genPc' = "idle"
            /\ genOutcome' = "ok"
            /\ UNCHANGED error
       ELSE /\ GenerateFails
            /\ UNCHANGED audioUrl
    /\ UNCHANGED <<topic, generatedSlides, isDownloading, scriptSlides,
                   viewerVars, pureVars, exportVars>>

\* onClick of "Create a New Presentation"
ClickNewPresentation ==
    /\ ~MidTask /\ ViewerShown
    /\ generatedSlides' = 0
    /\ topic' = ""
    /\ audioUrl' = 0
    /\ UNCHANGED <<isLoading, error, isDownloading, genPc, scriptSlides,
                   genOutcome, viewerVars, pureVars, exportVars>>

AppInit ==
    /\ topic = ""
    /\ isLoading = FALSE
    /\ error = "null"
    /\ generatedSlides = 0
    /\ audioUrl = 0
    /\ isDownloading = FALSE
    /\ genPc = "idle"
    /\ scriptSlides = 0
    /\ genOutcome = "none"


\* ---------------------------------------------------------- handleDownload
\* The variables below describe the latest run: a new run builds a new canvas,
\* audio graph and recorder.

\* generatedSlides.map(slide => wordCount / averageWPM * 60 * 1000)
exportSlideDurations == Durations(dlSlides)

\* catch (err) { setError(...) } finally { setIsDownloading(false) }
DownloadFails(msg) ==
    /\ error' = msg
    /\ isDownloading' = FALSE
    /\ dlPc' = "idle"
    /\ dlOutcome' = "error"

\* recorder.start() and audioSource.start() in the other order
StatementAfterSwapped(stmt) ==
    CASE stmt = "construct"     -> "audioStart"
      [] stmt = "audioStart"    -> "recorderStart"
      [] stmt = "recorderStart" -> "images"

\* The order of the statements between the decoding of the audio and the
\* await of the image loads: new MediaRecorder(...); recorder.start();
\* audioSource.start(); await Promise.all(...)
StatementAfter(stmt) ==
    CASE stmt = "construct"     -> "recorderStart"
      [] stmt = "recorderStart" -> "audioStart"
      [] stmt = "audioStart"    -> "images"

\* handleDownload up to the first await (fetch).  The click comes after the
\* stop events of the previous run were delivered.
ClickDownload(ctxOk) ==
    /\ ~MidTask /\ ViewerShown /\ ~isDownloading /\ ~stopEventQueued
    /\ IF generatedSlides = 0 \/ audioUrl = 0
       THEN UNCHANGED <<error, isDownloading, exportVars>>
       ELSE /\ dlSlides' = generatedSlides
            /\ dlAudioUrl' = audioUrl
            /\ recorderState' = "none"
            /\ srcPlaying' = FALSE /\ srcTime' = 0 /\ srcLen' = 0
            /\ srcEndedQueued' = FALSE /\ srcEnded' = FALSE
            /\ onendedSet' = FALSE /\ imgRemaining' = 0
            /\ exportSlideIndex' = 0 /\ slideIndex' = 0 /\ slideTimeoutId' = 0
            /\ exportTimers' = {} /\ exportTimerSeq' = 0
            /\ rafQueued' = FALSE /\ canvasShows' = -1
            /\ chunks' = <<>> /\ stopEventQueued' = FALSE /\ stopCalls' = 0
            /\ blob' = <<>> /\ offered' = 0
            /\ IF ctxOk
               THEN /\ isDownloading' = TRUE
                    /\ error' = "null"
                    /\ videoTrackLive' = TRUE
                    /\ audioContextState' = "running"
                    /\ dlPc' = "fetch"
                    /\ dlOutcome' = "none"
               ELSE /\ DownloadFails("Could not get canvas context")
                    /\ videoTrackLive' = FALSE
                    /\ audioContextState' = "none"
    /\ UNCHANGED <<topic, isLoading, generatedSlides, audioUrl, genPc,
                   scriptSlides, genOutcome, viewerVars, pureVars>>

\* await fetch(audioUrl)
FetchSettles(ok) ==
    /\ ~MidTask /\ dlPc = "fetch"
    /\ IF ok
       THEN /\ dlPc' = "arrayBuffer"
            /\ UNCHANGED <<error, isDownloading, dlOutcome>>
       ELSE DownloadFails("err.message")
    /\ UNCHANGED <<topic, isLoading, generatedSlides, audioUrl, genPc,
                   scriptSlides, genOutcome, viewerVars, pureVars, dlSlides, dlAudioUrl,
                   videoTrackLive, audioContextState, recorderState, srcPlaying,
                   srcTime, srcLen, srcEndedQueued, srcEnded, onendedSet,
                   imgRemaining, exportSlideIndex, slideIndex, slideTimeoutId,
                   exportTimers, exportTimerSeq, rafQueued, canvasShows, chunks,
                   stopEventQueued, stopCalls, blob, offered>>

\* await response.arrayBuffer()
ArrayBufferSettles(ok) ==
    /\ ~MidTask /\ dlPc = "arrayBuffer"
    /\ IF ok
       THEN /\ dlPc' = "decode"
            /\ UNCHANGED <<error, isDownloading, dlOutcome>>
       ELSE DownloadFails("err.message")
    /\ UNCHANGED <<topic, isLoading, generatedSlides, audioUrl, genPc,
                   scriptSlides, genOutcome, viewerVars, pureVars, dlSlides, dlAudioUrl,
                   videoTrackLive, audioContextState, recorderState, srcPlaying,
                   srcTime, srcLen, srcEndedQueued, srcEnded, onendedSet,
                   imgRemaining, exportSlideIndex, slideIndex, slideTimeoutId,
                   exportTimers, exportTimerSeq, rafQueued, canvasShows, chunks,
                   stopEventQueued, stopCalls, blob, offered>>

\* await audioContext.decodeAudioData(arrayBuffer), then the audio graph and
\* new MediaRecorder(combinedStream, ...), which throws for an unsupported type
DecodeAudioSettles(ok, recOk, delay) ==
    /\ ~MidTask /\ dlPc = "decode"
    /\ IF ok /\ recOk
       THEN /\ srcLen' = dlAudioUrl
            /\ recorderState' = "inactive"
            /\ imgRemaining' = delay
            /\ dlPc' = StatementAfter("construct")
            /\ UNCHANGED <<error, isDownloading, dlOutcome>>
       ELSE /\ DownloadFails("err.message")
            /\ srcLen' = IF ok THEN dlAudioUrl ELSE srcLen
            /\ UNCHANGED <<recorderState, imgRemaining>>
    /\ UNCHANGED <<topic, isLoading, generatedSlides, audioUrl, genPc,
                   scriptSlides, genOutcome, viewerVars, pureVars, dlSlides, dlAudioUrl,
                   videoTrackLive, audioContextState, srcPlaying,
                   srcTime, srcEndedQueued, srcEnded, onendedSet,
                   exportSlideIndex, slideIndex, slideTimeoutId,
                   exportTimers, exportTimerSeq, rafQueued, canvasShows, chunks,
                   stopEventQueued, stopCalls, blob, offered>>

\* recorder.start()
RecorderStart(ok) ==
    /\ dlPc = "recorderStart"
    /\ IF ok
       THEN /\ recorderState' = "recording"
            /\ dlPc' = StatementAfter("recorderStart")
            /\ UNCHANGED <<error, isDownloading, dlOutcome>>
       ELSE /\ DownloadFails("err.message")
            /\ UNCHANGED recorderState
    /\ UNCHANGED <<topic, isLoading, generatedSlides, audioUrl, genPc,
                   scriptSlides, genOutcome, viewerVars, pureVars, dlSlides, dlAudioUrl,
                   videoTrackLive, audioContextState, srcPlaying,
                   srcTime, srcLen, srcEndedQueued, srcEnded, onendedSet,
                   imgRemaining, exportSlideIndex, slideIndex, slideTimeoutId,
                   exportTimers, exportTimerSeq, rafQueued, canvasShows, chunks,
                   stopEventQueued, stopCalls, blob, offered>>

\* audioSource.start()
AudioSourceStart ==
    /\ dlPc = "audioStart"
    /\ srcPlaying' = TRUE
    /\ srcTime' = 0
    /\ dlPc' = StatementAfter("audioStart")
    /\ UNCHANGED <<appVars, viewerVars, pureVars, dlOutcome, dlSlides, dlAudioUrl,
                   videoTrackLive, audioContextState, recorderState,
                   srcLen, srcEndedQueued, srcEnded, onendedSet,
                   imgRemaining, exportSlideIndex, slideIndex, slideTimeoutId,
                   exportTimers, exportTimerSeq, rafQueued, canvasShows, chunks,
                   stopEventQueued, stopCalls, blob, offered>>

\* nextSlide() with the guard slideIndex > generatedSlides.length: the index
\* one past the last slide is shown, and setTimeout(..., undefined) is due at once
NextSlideOffByOne(idx, seq, timers, shown, timeoutId) ==
    IF idx > dlSlides
    THEN [shown |-> shown, timers |-> timers, seq |-> seq, timeoutId |-> timeoutId]
    ELSE [shown |-> idx,
          timers |-> timers \cup {[id |-> seq + 1,
                                   remaining |-> IF idx < dlSlides
                                                 THEN Durations(dlSlides)[idx]
                                                 ELSE 0]},
          seq |-> seq + 1, timeoutId |-> seq + 1]

\* nextSlide() of startSlideShow, entered with slideIndex = idx
NextSlide(idx, seq, timers, shown, timeoutId) ==
    IF idx >= dlSlides
    THEN [shown |-> shown, timers |-> timers, seq |-> seq, timeoutId |-> timeoutId]
    ELSE [shown |-> idx,
          timers |-> timers \cup {[id |-> seq + 1,
                                   remaining |-> exportSlideDurations[idx]]},
          seq |-> seq + 1, timeoutId |-> seq + 1]

\* await Promise.all(images); then requestAnimationFrame(renderLoop),
\* startSlideShow() and the registration of audioSource.onended
ImageLoadsSettle(ok) ==
    /\ ~MidTask /\ dlPc = "images" /\ imgRemaining = 0
    /\ IF ok
       THEN /\ LET r == NextSlide(0, exportTimerSeq, exportTimers, 0, slideTimeoutId)
               IN /\ exportSlideIndex' = r.shown
                  /\ exportTimers' = r.timers
                  /\ exportTimerSeq' = r.seq
                  /\ slideTimeoutId' = r.timeoutId
            /\ slideIndex' = 0
            /\ rafQueued' = TRUE
            /\ onendedSet' = TRUE
            /\ dlPc' = "ended"
            /\ UNCHANGED <<error, isDownloading, dlOutcome>>
       ELSE /\ DownloadFails("Failed to generate video.")
            /\ UNCHANGED <<exportSlideIndex, exportTimers, exportTimerSeq,
                           slideTimeoutId, slideIndex, rafQueued, onendedSet>>
    /\ UNCHANGED <<topic, isLoading, generatedSlides, audioUrl, genPc,
                   scriptSlides, genOutcome, viewerVars, pureVars, dlSlides, dlAudioUrl,
                   videoTrackLive, audioContextState, recorderState, srcPlaying,
                   srcTime, srcLen, srcEndedQueued, srcEnded, imgRemaining,
                   canvasShows, chunks, stopEventQueued, stopCalls, blob, offered>>

\* The callback of a due slide timeout: slideIndex++; nextSlide()
ExportTimeoutFires(t) ==
    /\ ~MidTask /\ t \in exportTimers /\ t.remaining = 0
    /\ LET r == NextSlide(slideIndex + 1, exportTimerSeq, exportTimers \ {t},
                          exportSlideIndex, slideTimeoutId)
       IN /\ exportSlideIndex' = r.shown
          /\ exportTimers' = r.timers
          /\ exportTimerSeq' = r.seq
          /\ slideTimeoutId' = r.timeoutId
    /\ slideIndex' = slideIndex + 1
    /\ UNCHANGED <<appVars, viewerVars, pureVars, dlPc, dlOutcome, dlSlides, dlAudioUrl,
                   videoTrackLive, audioContextState, recorderState, srcPlaying,
                   srcTime, srcLen, srcEndedQueued, srcEnded, onendedSet,
                   imgRemaining, rafQueued, canvasShows, chunks, stopEventQueued,
                   stopCalls, blob, offered>>

\* The 'ended' event of the audio source: with a handler registered,
\* clearTimeout(slideTimeoutId); resolve(null); without one it is dropped.
SourceEnded ==
    /\ ~MidTask /\ srcEndedQueued
    /\ srcEndedQueued' = FALSE
    /\ srcEnded' = TRUE
    /\ IF onendedSet
       THEN /\ exportTimers' = ClearTimeout(exportTimers, slideTimeoutId)
            /\ dlPc' = "recorderStop"
       ELSE UNCHANGED <<exportTimers, dlPc>>
    /\ UNCHANGED <<appVars, viewerVars, pureVars, dlOutcome, dlSlides, dlAudioUrl,
                   videoTrackLive, audioContextState, recorderState, srcPlaying,
                   srcTime, srcLen, onendedSet, imgRemaining, exportSlideIndex,
                   slideIndex, slideTimeoutId, exportTimerSeq, rafQueued,
                   canvasShows, chunks, stopEventQueued, stopCalls, blob, offered>>

\* recorder.stop(); finally { setIsDownloading(false) }
RecorderStop ==
    /\ dlPc = "recorderStop"
    /\ recorderState' = "inactive"
    /\ stopEventQueued' = TRUE
    /\ stopCalls' = stopCalls + 1
    /\ isDownloading' = FALSE
    /\ dlPc' = "idle"
    /\ dlOutcome' = "ok"
    /\ UNCHANGED <<topic, isLoading, error, generatedSlides, audioUrl, genPc,
                   scriptSlides, genOutcome, viewerVars, pureVars, dlSlides, dlAudioUrl,
                   videoTrackLive, audioContextState, srcPlaying,
                   srcTime, srcLen, srcEndedQueued, srcEnded, onendedSet,
                   imgRemaining, exportSlideIndex, slideIndex, slideTimeoutId,
                   exportTimers, exportTimerSeq, rafQueued, canvasShows, chunks,
                   blob, offered>>

\* The recorder's dataavailable and stop events: ondataavailable pushes a
\* non-empty chunk; onstop builds the blob of the chunks and clicks the link.
RecorderStopEvents(nonEmpty) ==
    /\ ~MidTask /\ stopEventQueued
    /\ stopEventQueued' = FALSE
    /\ LET got == IF nonEmpty THEN Append(chunks, Len(chunks) + 1) ELSE chunks
       IN /\ chunks' = got
          /\ blob' = got
    /\ offered' = offered + 1
    /\ UNCHANGED <<appVars, viewerVars, pureVars, dlPc, dlOutcome, dlSlides, dlAudioUrl,
                   videoTrackLive, audioContextState, recorderState, srcPlaying,
                   srcTime, srcLen, srcEndedQueued, srcEnded, onendedSet,
                   imgRemaining, exportSlideIndex, slideIndex, slideTimeoutId,
                   exportTimers, exportTimerSeq, rafQueued, canvasShows,
                   stopCalls>>

\* renderLoop, run by an animation frame
RenderLoop ==
    /\ ~MidTask /\ rafQueued
    /\ IF recorderState # "recording"
       THEN /\ rafQueued' = FALSE
            /\ UNCHANGED canvasShows
       ELSE /\ canvasShows' = exportSlideIndex
            /\ rafQueued' = TRUE
    /\ UNCHANGED <<appVars, viewerVars, pureVars, dlPc, dlOutcome, dlSlides, dlAudioUrl,
                   videoTrackLive, audioContextState, recorderState, srcPlaying,
                   srcTime, srcLen, srcEndedQueued, srcEnded, onendedSet,
                   imgRemaining, exportSlideIndex, slideIndex, slideTimeoutId,
                   exportTimers, exportTimerSeq, chunks, stopEventQueued,
                   stopCalls, blob, offered>>

\* Time passes up to the next due timeout, the end of the audio or the
\* settling of the image loads; it passes only when no task is ready to run.
ExportTick ==
    /\ ~MidTask /\ ~srcEndedQueued /\ ~stopEventQueued
    /\ \A t \in exportTimers : t.remaining > 0
    /\ ~(dlPc = "images" /\ imgRemaining = 0)
    /\ LET waits == {t.remaining : t \in exportTimers}
                    \cup (IF srcPlaying THEN {srcLen - srcTime} ELSE {})
                    \cup (IF dlPc = "images" THEN {imgRemaining} ELSE {})
       IN /\ waits # {}
          /\ LET d == Min(waits)
             IN /\ exportTimers' = {[t EXCEPT !.remaining = t.remaining - d] :
                                       t \in exportTimers}
                /\ imgRemaining' = IF dlPc = "images" THEN imgRemaining - d
                                   ELSE imgRemaining
                /\ IF srcPlaying
                   THEN /\ srcTime' = srcTime + d
                        /\ srcPlaying' = (srcTime + d < srcLen)
                        /\ srcEndedQueued' = (srcTime + d = srcLen)
                   ELSE UNCHANGED <<srcTime, srcPlaying, srcEndedQueued>>
    /\ UNCHANGED <<appVars, viewerVars, pureVars, dlPc, dlOutcome, dlSlides, dlAudioUrl,
                   videoTrackLive, audioContextState, recorderState, srcLen,
                   srcEnded, onendedSet, exportSlideIndex, slideIndex,
                   slideTimeoutId, exportTimerSeq, rafQueued, canvasShows,
                   chunks, stopEventQueued, stopCalls, blob, offered>>

ExportInit ==
    /\ dlPc = "idle" /\ dlOutcome = "none"
    /\ dlSlides = 0 /\ dlAudioUrl = 0
    /\ videoTrackLive = FALSE /\ audioContextState = "none"
    /\ recorderState = "none"
    /\ srcPlaying = FALSE /\ srcTime = 0 /\ srcLen = 0
    /\ srcEndedQueued = FALSE /\ srcEnded = FALSE
    /\ onendedSet = FALSE /\ imgRemaining = 0
    /\ exportSlideIndex = 0 /\ slideIndex = 0 /\ slideTimeoutId = 0
    /\ exportTimers = {} /\ exportTimerSeq = 0
    /\ rafQueued = FALSE /\ canvasShows = -1
    /\ chunks = <<>> /\ stopEventQueued = FALSE /\ stopCalls = 0
    /\ blob = <<>> /\ offered = 0

\* The tasks of a running export, which the event loop runs when they are due.
ExportStep ==
    \/ \E ok \in BOOLEAN : FetchSettles(ok)
    \/ \E ok \in BOOLEAN : ArrayBufferSettles(ok)
    \/ \E ok, recOk \in BOOLEAN, delay \in ImageLoadDelays :
          DecodeAudioSettles(ok, recOk, delay)
    \/ \E ok \in BOOLEAN : RecorderStart(ok)
    \/ AudioSourceStart
    \/ \E ok \in BOOLEAN : ImageLoadsSettle(ok)
    \/ \E t \in exportTimers : ExportTimeoutFires(t)
    \/ SourceEnded
    \/ RecorderStop
    \/ \E nonEmpty \in BOOLEAN : RecorderStopEvents(nonEmpty)
    \/ RenderLoop
    \/ ExportTick

AppNext ==
    \/ \E t \in {"", "AI"} : SetTopic(t)
    \/ ClickGenerate
    \/ \E ok \in BOOLEAN, n \in 0..MaxSlides : ScriptSettles(ok, n)
    \/ \E ok \in BOOLEAN : ImagesSettle(ok)
    \/ \E ok \in BOOLEAN : NarrationSettles(ok)
    \/ \E ok \in BOOLEAN, len \in AudioLens : DecodeSettles(ok, len)
    \/ ClickNewPresentation
    \/ \E ctxOk \in BOOLEAN : ClickDownload(ctxOk)
    \/ ExportStep

\* No pure function is being applied.
PureInit == call = [fn |-> "none"] /\ result = [fn |-> "none"]

Init == ViewerInit /\ AppInit /\ ExportInit /\ PureInit

SpecViewer == Init /\ [][ViewerNext]_vars

\* The tasks of the viewer that the event loop runs when they are ready; a
\* click is the user's choice.
ViewerTask ==
    \/ \E t \in viewerTimers : TimeoutFires(t)
    \/ OnEnded
    \/ Render
    \/ FlushEffects
    \/ ViewerTick

SpecViewerFair == SpecViewer /\ WF_vars(ViewerTask)

\* The App is checked with one narration audio in its viewer.
AppStart == Init /\ audioLen = ScheduleTotal(MaxSlides)

SpecApp == AppStart /\ [][AppNext]_vars

\* The event loop runs every task of an export that is ready, and time passes.
SpecAppFair == SpecApp /\ WF_vars(ExportStep)

\* The viewer's timers and the export's timers are separate objects and share
\* no state, so the two scheduling modes are explored one at a time: the
\* viewer plays while the App is untouched, or the App runs while the viewer
\* has not been played.
ModesNext ==
    \/ AppInit /\ ExportInit /\ ViewerNext
    \/ clicks = 0 /\ audioLen = ScheduleTotal(MaxSlides) /\ AppNext

SpecModes == Init /\ [][ModesNext]_vars

\* ------------------------------------------------------ duration estimators
\* Narration texts: every string of words' characters and whitespace of at
\* most MaxText characters.
TextsOfLen(n) == [1..n -> {"w", " "}]

Texts == UNION {TextsOfLen(n) : n \in 0..MaxText}

\* k one-letter words separated by single spaces
WordsText(k) == [i \in 1..(2 * k - 1) |-> IF i % 2 = 1 THEN "w" ELSE " "]

Scenario == [i \in 1..ScenarioSlides |-> WordsText(ScenarioWords)]

\* The slide lists given to the estimators: one slide of any text, two slides
\* of short texts, and the presentation the script generator is asked for.
SlideLists ==
    {<<t>> : t \in Texts}
       \cup {<<t, u>> : t \in TextsOfLen(1) \cup TextsOfLen(2),
                        u \in TextsOfLen(1) \cup TextsOfLen(2)}
       \cup {Scenario}

\* slides.map(slide => (slide.narration.split(/\s+/).length / averageWPM) * 60 * 1000)
EstimateAll(slides) == [i \in 1..Len(slides) |-> EstimateDuration(slides[i])]

\* The viewer's duration effect.
ViewerEstimate ==
    /\ call.fn = "estimate" /\ result.fn = "none"
    /\ result' = [fn |-> "viewer", durations |-> EstimateAll(call.slides)]
    /\ UNCHANGED <<call, viewerVars, appVars, exportVars>>

\* handleDownload's slideDurations.
ExportEstimate ==
    /\ call.fn = "estimate" /\ result.fn = "none"
    /\ result' = [fn |-> "export", durations |-> EstimateAll(call.slides)]
    /\ UNCHANGED <<call, viewerVars, appVars, exportVars>>

EstimatorInit ==
    /\ ViewerInit /\ audioLen = ScheduleTotal(MaxSlides)
    /\ AppInit /\ ExportInit
    /\ call \in {[fn |-> "estimate", slides |-> l] : l \in SlideLists}
    /\ result = [fn |-> "none"]

EstimatorNext == ViewerEstimate \/ ExportEstimate

SpecEstimator == EstimatorInit /\ [][EstimatorNext]_vars

\* -------------------------------------------------------------- bufferToWav
\* Samples are the fractions n / SampleDen; the buffers hold values beyond
\* [-1, 1] too.
SampleNums == (0 - SampleDen - 1)..(SampleDen + 1)

\* An AudioBuffer of ch channels and frames frames whose samples, in
\* interleaved order, alternate between a / SampleDen and b / SampleDen.
AudioBuffer(ch, frames, a, b) ==
    [numberOfChannels |-> ch, length |-> frames, sampleRate |-> SampleRate,
     channels |-> [c \in 0..(ch - 1) |->
                     [f \in 0..(frames - 1) |->
                        IF (f * ch + c) % 2 = 0 THEN a ELSE b]]]

AudioBuffers ==
    {AudioBuffer(ch, frames, a, b) :
        ch \in 1..MaxChannels, frames \in 0..MaxFrames,
        a \in SampleNums, b \in SampleNums}

\* a length that counts one byte per sample
WavLengthOneByteSamples(frames, numOfChan) == frames * numOfChan + WavHeaderLen

\* const length = buffer.length * numOfChan * 2 + 44
WavLength(frames, numOfChan) == frames * numOfChan * 2 + WavHeaderLen

\* The little-endian bytes of the low 8 * size bits of v.
RECURSIVE Pow256(_)
Pow256(k) == IF k = 0 THEN 1 ELSE 256 * Pow256(k - 1)

LEBytes(v, size) == [k \in 1..size |-> (v \div Pow256(k - 1)) % 256]

\* The unsigned value of the low 8 * size bits of v; the 32-bit values written
\* here are all non-negative and below 2^31.
Wrap(v, size) == IF size < 4 THEN v % Pow256(size) ELSE v

\* DataView.setUint16 / setUint32 / setInt16 (little-endian): the bytes of a
\* run of writes, each advancing pos by its size, given as <<size, value>>.
RECURSIVE FieldBytes(_)
FieldBytes(fields) ==
    IF fields = <<>> THEN <<>>
    ELSE LEBytes(Wrap(Head(fields)[2], Head(fields)[1]), Head(fields)[1])
            \o FieldBytes(Tail(fields))

\* The view after writing bytes at byte offset pos; a write that does not fit
\* in the view throws a RangeError.
Fits(view, pos, bytes) == pos + Len(bytes) <= Len(view)

Place(view, pos, bytes) ==
    [p \in 1..Len(view) |->
        IF p > pos /\ p <= pos + Len(bytes) THEN bytes[p - pos] ELSE view[p]]

\* The header written before the "data" chunk length: <<size, value>> pairs.
HeaderFields(buffer, length) ==
    << <<4, TagRIFF>>, <<4, length - 8>>, <<4, TagWAVE>>,
       <<4, TagFmt>>, <<4, 16>>, <<2, 1>>, <<2, buffer.numberOfChannels>>,
       <<4, buffer.sampleRate>>,
       <<4, buffer.sampleRate * 2 * buffer.numberOfChannels>>,
       <<2, buffer.numberOfChannels * 2>>, <<2, 16>>,
       <<4, TagData>> >>

\* a conversion that scales every sample by 32768
ScaleForSymmetric(n) == 32768

\* 0.5 + sample < 0 ? 32768 : 32767, for the clamped sample n / SampleDen
ScaleFor(n) == IF SampleDen + 2 * n < 0 THEN 32768 ELSE 32767

\* Math.max(-1, Math.min(1, x)) on numerators
Clamp(n) == IF n > SampleDen THEN SampleDen
            ELSE IF n < 0 - SampleDen THEN 0 - SampleDen ELSE n

\* x | 0 for a fraction a / b with b > 0: truncation toward zero
TruncDiv(a, b) == IF a >= 0 THEN a \div b ELSE 0 - ((0 - a) \div b)

\* lines 102-103: the integer handed to view.setInt16
ConvertSample(n) == TruncDiv(Clamp(n) * ScaleFor(Clamp(n)), SampleDen)

\* One pass of the for loop over the channels, for frame offset: the samples
\* handed to setInt16, channel by channel; a read beyond the channel data
\* yields undefined, which converts to 0.
ReadsInside(buffer, offset) ==
    \A i \in 0..(buffer.numberOfChannels - 1) : offset \in DOMAIN buffer.channels[i]

FrameFields(buffer, offset) ==
    [k \in 1..buffer.numberOfChannels |->
        <<2, IF offset \in DOMAIN buffer.channels[k - 1]
             THEN ConvertSample(buffer.channels[k - 1][offset])
             ELSE 0>>]

\* Lines 71-95: allocation of the zero-filled view and the header; the "data"
\* chunk length is computed from pos as the header left it.
WavHeader ==
    /\ call.fn = "bufferToWav" /\ result.fn = "none"
    /\ LET buffer == call.buffer
           length == WavLength(buffer.length, buffer.numberOfChannels)
           zeros == [p \in 1..length |-> 0]
           head == FieldBytes(HeaderFields(buffer, length))
           bytes == head \o FieldBytes(<< <<4, length - Len(head) - 4>> >>)
           fits == Fits(zeros, 0, bytes)
       IN result' = [fn |-> "bufferToWav",
                     pc |-> IF fits THEN "loop" ELSE "threw",
                     length |-> length, offset |-> 0,
                     view |-> IF fits THEN Place(zeros, 0, bytes) ELSE zeros,
                     pos |-> IF fits THEN Len(bytes) ELSE 0,
                     threw |-> ~fits, oobRead |-> FALSE]
    /\ UNCHANGED <<call, viewerVars, appVars, exportVars>>

\* One iteration of while (pos < length).
WavFrame ==
    /\ result.fn = "bufferToWav" /\ result.pc = "loop"
    /\ result.pos < result.length
    /\ LET bytes == FieldBytes(FrameFields(call.buffer, result.offset))
           fits == Fits(result.view, result.pos, bytes)
       IN result' = [result EXCEPT
                        !.view = IF fits THEN Place(@, result.pos, bytes) ELSE @,
                        !.pos = IF fits THEN @ + Len(bytes) ELSE @,
                        !.threw = ~fits,
                        !.oobRead = @ \/ ~ReadsInside(call.buffer, result.offset),
                        !.offset = IF fits THEN @ + 1 ELSE @,
                        !.pc = IF fits THEN "loop" ELSE "threw"]
    /\ UNCHANGED <<call, viewerVars, appVars, exportVars>>

\* The loop ends and the view is returned as the blob.
WavReturn ==
    /\ result.fn = "bufferToWav" /\ result.pc = "loop"
    /\ ~(result.pos < result.length)
    /\ result' = [result EXCEPT !.pc = "done"]
    /\ UNCHANGED <<call, viewerVars, appVars, exportVars>>

WavInit ==
    /\ ViewerInit /\ audioLen = ScheduleTotal(MaxSlides)
    /\ AppInit /\ ExportInit
    /\ call \in {[fn |-> "bufferToWav", buffer |-> b] : b \in AudioBuffers}
    /\ result = [fn |-> "none"]

WavNext == WavHeader \/ WavFrame \/ WavReturn

SpecWav == WavInit /\ [][WavNext]_vars

\* ---------------------------------------------------- renderLoop's rectangle
\* Sides of the canvas and of the image: the small ones and the export's own.
Dims == (1..MaxDim) \cup {CanvasWidth, CanvasHeight}

\* a rectangle that covers the canvas: the comparison is the other way round
DrawRectCover(W, H, imgW, imgH) ==
    LET r == IF W * imgH < imgW * H
             THEN [den |-> imgH, drawWidth |-> H * imgW, drawHeight |-> H * imgH]
             ELSE [den |-> imgW, drawWidth |-> W * imgW, drawHeight |-> W * imgH]
    IN [den |-> r.den, drawWidth |-> r.drawWidth, drawHeight |-> r.drawHeight,
        dx |-> W * r.den - r.drawWidth, dy |-> H * r.den - r.drawHeight]

\* Lines 196-208 in exact fractions.  canvasAspect > imgAspect is
\* W * imgH > imgW * H.  drawWidth and drawHeight are numerators over den,
\* dx and dy are numerators over 2 * den.
DrawRect(W, H, imgW, imgH) ==
    LET r == IF W * imgH > imgW * H
             THEN [den |-> imgH, drawWidth |-> H * imgW, drawHeight |-> H * imgH]
             ELSE [den |-> imgW, drawWidth |-> W * imgW, drawHeight |-> W * imgH]
    IN [den |-> r.den, drawWidth |-> r.drawWidth, drawHeight |-> r.drawHeight,
        dx |-> W * r.den - r.drawWidth, dy |-> H * r.den - r.drawHeight]

\* renderLoop computes the rectangle of ctx.drawImage.
ComputeRect ==
    /\ call.fn = "renderLoop" /\ result.fn = "none"
    /\ result' = [fn |-> "renderLoop",
                  rect |-> DrawRect(call.W, call.H, call.imgW, call.imgH)]
    /\ UNCHANGED <<call, viewerVars, appVars, exportVars>>

RectInit ==
    /\ ViewerInit /\ audioLen = ScheduleTotal(MaxSlides)
    /\ AppInit /\ ExportInit
    /\ call \in {[fn |-> "renderLoop", W |-> w, H |-> h, imgW |-> iw, imgH |-> ih] :
                    w \in Dims, h \in Dims, iw \in Dims, ih \in Dims}
    /\ result = [fn |-> "none"]

RectNext == ComputeRect

SpecRect == RectInit /\ [][RectNext]_vars

\* C1: in the viewer no timeout callback runs after playback was stopped or
\* the index moved away from the index it was scheduled for.
C1_NoFiringAfterCancel == firedAfterStop = 0

\* C2: in an export, recorder.stop() is called with no slide timeout pending,
\* at most once, and currentSlideIndex does not change once the audio source
\* has signalled its end.
C2_EndCancelsThenStopsOnce ==
    [][ /\ (dlPc = "recorderStop" /\ dlPc' = "idle") => exportTimers = {}
        /\ stopCalls' <= 1
        /\ (srcEnded /\ srcEnded') => exportSlideIndex' = exportSlideIndex ]_vars

\* C3: once the audio source of a running export has ended, the recorder is
\* eventually stopped and isDownloading is reset.
C3_AudioEndLeadsToStop ==
    (srcEnded /\ isDownloading) ~> (recorderState # "recording" /\ ~isDownloading)

\* C4: the audio source never plays while the recorder is not recording.
C4_RecorderStartsFirst == srcPlaying => recorderState = "recording"

C4_Witness ==
    /\ dlPc = "images" /\ srcPlaying /\ srcTime = 0
    /\ recorderState = "recording"

\* C5: whenever the recorder is recording and the event loop is free, a
\* renderLoop invocation is queued for the next animation frame.
C5_RenderLoopWhileRecording ==
    (recorderState = "recording" /\ ~MidTask) => rafQueued

\* C6: startSlideShow() runs at the moment the audio starts: the audio source
\* has played nothing when the slide chain is started.
C6_ChainStartsWithAudio ==
    [][(dlPc = "images" /\ dlPc' = "ended") => srcTime = 0]_vars

\* C7: when an export has ended with an error, its recorder is not recording,
\* its audio source is not playing and no slide timeout is pending.
C7_ReleasedOnError ==
    (dlPc = "idle" /\ dlOutcome = "error") =>
        (recorderState # "recording" /\ ~srcPlaying /\ exportTimers = {})

\* C8: when handleGenerate completes with an error, generatedSlides and
\* audioUrl are empty, so the form and not the viewer is rendered.
C8_NoPartialPresentation ==
    [][(genPc # "idle" /\ genPc' = "idle" /\ genOutcome' = "error")
         => (generatedSlides' = 0 /\ audioUrl' = 0 /\ FormShown')]_vars

\* C9: when handleGenerate or handleDownload catches a failure, the error
\* message is shown and isLoading / isDownloading is false.
C9_NoSilentFailure ==
    [][ /\ (genPc # "idle" /\ genPc' = "idle" /\ genOutcome' = "error")
             => (ErrorShown' /\ ~isLoading')
        /\ (dlPc # "idle" /\ dlPc' = "idle" /\ dlOutcome' = "error")
             => (ErrorShown' /\ ~isDownloading') ]_vars

\* C10: after a successful export delivered its stop event, one blob of the
\* chunks in arrival order has been offered once, and the capture stream and
\* the audio context are released.
C10_BlobOnceAndReleased ==
    (dlPc = "idle" /\ dlOutcome = "ok" /\ ~stopEventQueued) =>
        /\ offered = 1 /\ blob = chunks
        /\ ~videoTrackLive
        /\ audioContextState = "closed"

\* C11: during an export currentSlideIndex (and the index renderLoop draws)
\* is below the number of slides, is 0 when the slide chain starts, and
\* changes only by +1.
C11_ExportIndexInRange ==
    [][ /\ dlSlides' > 0 => (/\ exportSlideIndex' \in 0..(dlSlides' - 1)
                             /\ canvasShows' \in -1..(dlSlides' - 1))
        /\ (dlPc = "images" /\ dlPc' = "ended") => exportSlideIndex' = 0
        /\ dlPc # "idle" =>
              exportSlideIndex' \in {exportSlideIndex, exportSlideIndex + 1} ]_vars

C11_Witness ==
    /\ dlSlides >= 2 /\ slideIndex = dlSlides
    /\ exportSlideIndex = dlSlides - 1
    /\ canvasShows = exportSlideIndex

\* C12: in the viewer every timeout is created for the committed index i,
\* with i below the last slide and the delay schedule[i]; without a click or
\* an audio end the index changes by +1 only; at the last slide playback is
\* stopped with nothing scheduled; and playback left alone (no click, no
\* audio end) reaches the last slide with isPlaying = false.
C12_TimerChainAdvances ==
    /\ [][ /\ \A t \in viewerTimers' :
                t.id > timerSeq =>
                   /\ t.idx = currentSlideIndex'
                   /\ t.idx < slidesLength - 1
                   /\ t.remaining = slideDurations[t.idx]
           /\ (clicks' = clicks
                 /\ \A k \in 1..Len(updateQueue) : updateQueue[k].kind # "setIndex")
                => currentSlideIndex' \in {currentSlideIndex, currentSlideIndex + 1}
           /\ (currentSlideIndex' = slidesLength - 1
                 /\ updateQueue' = <<>> /\ ~effectsPending')
                => (~isPlaying' /\ viewerTimers' = {}) ]_vars
    /\ \A c \in 0..MaxClicks :
          (isPlaying /\ clicks = c) ~>
             \/ clicks # c
             \/ audioTime = audioLen
             \/ (currentSlideIndex = slidesLength - 1 /\ ~isPlaying)

C12_Witness ==
    /\ clicks = 1 /\ audioTime < audioLen /\ ~audioPaused
    /\ currentSlideIndex = slidesLength - 1 /\ ~isPlaying
    /\ updateQueue = <<>> /\ ~effectsPending

\* C18: in the viewer currentSlideIndex is at least 0 and below slides.length
\* in every reachable state, so slides[currentSlideIndex] is defined.
C18_ViewerIndexInRange == currentSlideIndex \in 0..(slidesLength - 1)

\* C19: in every settled state of the viewer (nothing queued, no effect
\* pending) isPlaying = false implies that the audio element is not playing,
\* and isPlaying = true implies that the audio was asked to play.
C19_FlagAgreesWithAudio ==
    (updateQueue = <<>> /\ ~effectsPending /\ ~endedEventQueued) =>
       /\ ~isPlaying => ~ViewerAudioRuns
       /\ isPlaying => (~audioPaused \/ audioTime = audioLen)

\* C20: a pause click keeps the index and the audio position and leaves no
\* timeout pending; a resume click keeps the index i and the audio position
\* and creates one timeout with the full delay schedule[i], unless the audio
\* has ended or i is the last slide, when it sets the index and the audio
\* position to 0.
C20_ResumeKeepsIndexFullDelay ==
    [][ /\ (clicks' = clicks + 1 /\ isPlaying) =>
              /\ currentSlideIndex' = currentSlideIndex
              /\ audioTime' = audioTime /\ audioPaused'
              /\ viewerTimers' = {}
        /\ (clicks' = clicks + 1 /\ ~isPlaying) =>
              /\ isPlaying' /\ ~audioPaused'
              /\ IF audioTime = audioLen \/ currentSlideIndex = slidesLength - 1
                 THEN currentSlideIndex' = 0 /\ audioTime' = 0
                 ELSE /\ currentSlideIndex' = currentSlideIndex
                      /\ audioTime' = audioTime
              /\ \A t \in viewerTimers' :
                    /\ t.idx = currentSlideIndex'
                    /\ t.remaining = slideDurations[t.idx]
              /\ Cardinality(viewerTimers') = 1 ]_vars

\* resumed in the middle of slide 0: the new timeout has the full delay
C20_Witness ==
    /\ isPlaying /\ clicks = 3 /\ currentSlideIndex = 0
    /\ audioTime > 0 /\ audioTime < slideDurations[0] /\ ~audioPaused
    /\ \E t \in viewerTimers : t.idx = 0 /\ t.remaining = slideDurations[0]

\* C17: in the viewer and in the export at most one slide-advance timeout is
\* pending and it is the one the stored handle denotes; a new timeout of the
\* viewer replaces the pending ones, and a new timeout of the export is
\* created when none is pending or by the callback of the due one.
C17_AtMostOnePendingTimeout ==
    /\ [](/\ Cardinality(viewerTimers) <= 1
          /\ \A t \in viewerTimers : t.id = slideTimeoutRef
          /\ Cardinality(exportTimers) <= 1
          /\ \A t \in exportTimers : t.id = slideTimeoutId
          /\ dlPc = "idle" => exportTimers = {})
    /\ [][ /\ \A t \in viewerTimers' :
                 t.id > timerSeq => viewerTimers' = {t}
           /\ \A t \in exportTimers' :
                 (t.id > exportTimerSeq /\ dlPc # "idle") =>
                    /\ exportTimers' = {t}
                    /\ \A u \in exportTimers : u.remaining = 0 ]_vars

\* the export's second timeout, created by the callback of the first
C17_Witness ==
    /\ slideIndex >= 1 /\ dlPc = "ended" /\ exportTimerSeq >= 2
    /\ \E t \in exportTimers : t.id = slideTimeoutId /\ t.id = exportTimerSeq

\* C13: for every narration text the estimated duration is
\* max(1, wordCount) / 180 * 60000 ms, where wordCount is the number of
\* whitespace-delimited words, and it is positive; the schedule has one entry
\* per slide in slide order; 5 slides of 30 words give 10000 ms each and
\* 50000 ms in total; for the viewer's and the export's estimator.
WordCount(s) ==
    Cardinality({i \in 1..Len(s) : ~IsSpace(s[i]) /\ (i = 1 \/ IsSpace(s[i-1]))})

Max(a, b) == IF a >= b THEN a ELSE b

RECURSIVE SumSeq(_)
SumSeq(q) == IF q = <<>> THEN 0 ELSE Head(q) + SumSeq(Tail(q))

C13_DurationFromWordCount ==
    result.fn \in {"viewer", "export"} =>
       /\ Len(result.durations) = Len(call.slides)
       /\ \A i \in 1..Len(call.slides) :
             /\ result.durations[i] =
                   (Max(1, WordCount(call.slides[i])) * 60000 * 3) \div 180
             /\ result.durations[i] > 0
       /\ call.slides = Scenario =>
             /\ \A i \in 1..ScenarioSlides : result.durations[i] = 10000 * 3
             /\ SumSeq(result.durations) = 50000 * 3

\* The unsigned 32-bit and the signed 16-bit little-endian numbers stored at
\* byte offset off of a view.
Uint32At(view, off) ==
    view[off + 1] + 256 * view[off + 2] + 65536 * view[off + 3]
       + 16777216 * view[off + 4]

Int16At(view, off) ==
    LET u == view[off + 1] + 256 * view[off + 2]
    IN IF u >= 32768 THEN u - 65536 ELSE u

\* C14: bufferToWav produces 44 + frameCount * channelCount * 2 bytes; the
\* header's data length is frameCount * channelCount * 2 and its RIFF length
\* is the total length minus 8; the loop goes on exactly while fewer than
\* frameCount frames are written, each pass writing one frame, and returns
\* after frameCount frames, without a read beyond the channel data or a write
\* beyond the view.
C14_WavLengthAndHeader ==
    result.fn = "bufferToWav" =>
       LET frames == call.buffer.length
           ch == call.buffer.numberOfChannels
       IN /\ ~result.threw /\ ~result.oobRead
          /\ Len(result.view) = 44 + frames * ch * 2
          /\ Uint32At(result.view, 40) = frames * ch * 2
          /\ Uint32At(result.view, 4) = Len(result.view) - 8
          /\ result.offset <= frames
          /\ result.pos = 44 + 2 * ch * result.offset
          /\ result.pc \in {"loop", "done"}
          /\ (result.pos < result.length) <=> (result.offset < frames)
          /\ result.pc = "done" =>
                result.offset = frames /\ result.pos = Len(result.view)

C14_Witness ==
    /\ result.fn = "bufferToWav" /\ result.pc = "done"
    /\ call.buffer.length >= 2 /\ call.buffer.numberOfChannels >= 2
    /\ result.offset = call.buffer.length

\* C15: every written sample is an integer in [-32768, 32767] that is the
\* clamped sample times 32768 (below -0.5) or 32767, truncated toward zero;
\* the conversion is monotonically non-decreasing; 1.0, 0.0 and -1.0 give
\* 32767, 0 and -32768; frame f channel c is at byte 44 + 2 * (f * ch + c).
C15_SampleConversion ==
    result.fn = "bufferToWav" =>
       LET ch == call.buffer.numberOfChannels
           In(f, c) == call.buffer.channels[c][f]
           Out(f, c) == Int16At(result.view, 44 + 2 * (f * ch + c))
           Written == (0..(result.offset - 1)) \X (0..(ch - 1))
       IN \A x \in Written :
             LET n == In(x[1], x[2])
                 v == Out(x[1], x[2])
                 cl == IF n > SampleDen THEN SampleDen
                       ELSE IF n < 0 - SampleDen THEN 0 - SampleDen ELSE n
                 k == IF 2 * cl < 0 - SampleDen THEN 32768 ELSE 32767
             IN /\ v \in (0 - 32768)..32767
                /\ IF cl >= 0
                   THEN v * SampleDen <= cl * k /\ cl * k < (v + 1) * SampleDen
                   ELSE (v - 1) * SampleDen < cl * k /\ cl * k <= v * SampleDen
                /\ n = SampleDen => v = 32767
                /\ n = 0 => v = 0
                /\ n = 0 - SampleDen => v = 0 - 32768
                /\ \A y \in Written :
                      n <= In(y[1], y[2]) => v <= Out(y[1], y[2])

C15_Witness ==
    /\ result.fn = "bufferToWav" /\ result.pc = "done"
    /\ call.buffer.numberOfChannels = 2 /\ call.buffer.length = 2
    /\ call.buffer.channels[0][1] = 0 - SampleDen
    /\ call.buffer.channels[1][1] = SampleDen
    /\ Int16At(result.view, 44 + 2 * (1 * 2 + 0)) = 0 - 32768
    /\ Int16At(result.view, 44 + 2 * (1 * 2 + 1)) = 32767

\* The rectangle lies inside the canvas, keeps the image's aspect ratio and is
\* centered (fractions compared by cross-multiplication).
RectInsideCentered(W, H, imgW, imgH, rect) ==
    /\ rect.den > 0
    /\ rect.dx >= 0 /\ rect.dy >= 0
    /\ rect.dx + 2 * rect.drawWidth <= 2 * W * rect.den
    /\ rect.dy + 2 * rect.drawHeight <= 2 * H * rect.den
    /\ rect.drawWidth * imgH = rect.drawHeight * imgW
    /\ rect.dx = W * rect.den - rect.drawWidth
    /\ rect.dy = H * rect.den - rect.drawHeight

\* C16 as stated: the rectangle drawn by renderLoop lies inside the canvas,
\* keeps the aspect ratio, is centered, and exactly one of dx, dy is zero.
C16_ExactlyOneOffsetZero ==
    result.fn = "renderLoop" =>
       /\ RectInsideCentered(call.W, call.H, call.imgW, call.imgH, result.rect)
       /\ (result.rect.dx = 0) # (result.rect.dy = 0)

\* C16 amended: the rectangle drawn by renderLoop lies inside the canvas, keeps
\* the aspect ratio, is centered, and at least one of dx, dy is zero; both
\* are zero exactly when the image has the canvas's aspect ratio.
C16_RectInsideAtLeastOneZero ==
    result.fn = "renderLoop" =>
       /\ RectInsideCentered(call.W, call.H, call.imgW, call.imgH, result.rect)
       /\ result.rect.dx = 0 \/ result.rect.dy = 0
       /\ (result.rect.dx = 0 /\ result.rect.dy = 0)
             <=> (call.W * call.imgH = call.imgW * call.H)

\* a square image on the export's canvas: bars on the left and right only
C16_Witness ==
    /\ result.fn = "renderLoop"
    /\ call.W = CanvasWidth /\ call.H = CanvasHeight /\ call.imgW = call.imgH
    /\ result.rect.dx > 0 /\ result.rect.dy = 0

====
